---- MODULE Spec2Model ----
(***************************************************************************)
(* Model of the bounded queue (ring buffer) of examples/ring-buffer:       *)
(* Queue<T> { buffer: Vec<Option<T>>, head, tail, len } with new, push,    *)
(* pop, len, is_empty, is_full, capacity, and of the value's destruction.  *)
(* Items are modelled as distinct identities, so that ownership (moves and *)
(* drops) of a non-Copy T can be followed.                                 *)
(***************************************************************************)
EXTENDS Integers, Sequences, FiniteSets, TLC

\* ------------------------------------------------------------- bounds
\* Largest capacity passed to Queue::new.
MaxCap == 3
\* Number of items the caller ever offers to push in the free-running
\* specification.
MaxItems == 8
\* Number of fill/drain cycles the cycle driver runs.
NumCycles == 5
\* Number of calls each thread makes in the shared-queue specification.
MaxCalls == 2
\* Width of usize in the shared-queue specification (scaled down from 64).
UsizeBits == 3

VARIABLES
    st,       \* lifecycle of the queue value: "none", "live", "panicked", "dropped"
    buffer,   \* Queue::buffer, a function 0..capacity-1 -> Option<T>
    head,     \* Queue::head
    tail,     \* Queue::tail
    len,      \* Queue::len
    next,     \* the next fresh item the caller will construct
    owner,    \* item -> "queue" | "caller" | "dropped": who owns the item now
    drops,    \* item -> number of times the item's destructor has run
    pushed,   \* history: items whose push returned Ok(()), in call order
    popped,   \* history: items returned in Some(..) by pop, in call order
    ret,      \* the last call and what it returned
    drv,      \* position of the scripted caller (cycle driver)
    thr       \* two threads calling push/pop on the same queue, step by step

vars == <<st, buffer, head, tail, len, next, owner, drops, pushed, popped, ret, drv, thr>>

queue == <<buffer, head, tail, len>>

\* ------------------------------------------------------------- values
\* Option<T>
None == <<>>
Some(x) == <<x>>

\* Result<(), Error>; Error has the single unit variant Full.
Full == "Full"
Ok == <<"Ok">>
Err(e) == <<"Err", e>>

\* ------------------------------------------------------------- observers
capacity == Cardinality(DOMAIN buffer)

is_empty_negative == len < 0
is_empty_headtail == head = tail
is_empty == len = 0

is_full_overwrite == len > capacity
is_full_early == len + 1 >= capacity
is_full == len = capacity

\* ------------------------------------------------------------- new
\* new without the capacity assertion
New_noassert(c) ==
    /\ st = "none"
    /\ st' = "live"
    /\ buffer' = [i \in 0..(c - 1) |-> None]
    /\ head' = 0
    /\ tail' = 0
    /\ len' = 0
    /\ ret' = [op |-> "new", arg |-> c, res |-> "queue"]
    /\ UNCHANGED <<next, owner, drops, pushed, popped, drv, thr>>

\* new that reserves the Vec (with_capacity) and leaves out resize_with
New_noresize(c) ==
    /\ st = "none"
    /\ IF c > 0
       THEN /\ st' = "live"
            /\ buffer' = <<>>
            /\ head' = 0
            /\ tail' = 0
            /\ len' = 0
            /\ ret' = [op |-> "new", arg |-> c, res |-> "queue"]
       ELSE /\ st' = "panicked"
            /\ UNCHANGED queue
            /\ ret' = [op |-> "new", arg |-> c, res |-> "panic"]
    /\ UNCHANGED <<next, owner, drops, pushed, popped, drv, thr>>

\* Queue::new(c): the assert panics for c = 0, no queue value exists then.
New(c) ==
    /\ st = "none"
    /\ IF c > 0
       THEN /\ st' = "live"
            /\ buffer' = [i \in 0..(c - 1) |-> None]
            /\ head' = 0
            /\ tail' = 0
            /\ len' = 0
            /\ ret' = [op |-> "new", arg |-> c, res |-> "queue"]
       ELSE /\ st' = "panicked"
            /\ UNCHANGED queue
            /\ ret' = [op |-> "new", arg |-> c, res |-> "panic"]
    /\ UNCHANGED <<next, owner, drops, pushed, popped, drv, thr>>

\* ------------------------------------------------------------- ownership
\* The destructor of the value held by an Option<T> runs (nothing for None).
Destroy(d, opt) == IF opt = None THEN d ELSE [d EXCEPT ![opt[1]] = @ + 1]

Disown(o, opt) == IF opt = None THEN o ELSE [o EXCEPT ![opt[1]] = "dropped"]

\* ------------------------------------------------------------- push
PushSlot_athead(item) == [buffer EXCEPT ![head] = Some(item)]
PushSlot_grow(item) == (capacity :> Some(item)) @@ buffer
\* self.buffer[self.tail] = Some(item)
PushSlot(item) == [buffer EXCEPT ![tail] = Some(item)]

PushTail_nowrap == IF tail + 1 < capacity THEN tail + 1 ELSE tail
\* self.tail = (self.tail + 1) % self.capacity()
PushTail == (tail + 1) % capacity

\* self.len += 1
PushLen == len + 1

\* The item moved into a push that returns Err(Error::Full): Error::Full has no
\* field to carry it, so it goes out of scope (is dropped) when push returns.
PushFullOwner_returned(item) == "caller"
PushFullOwner(item) == "dropped"

PushFullDrops(item) == 1

\* push without the is_full check
Push_unchecked(item) ==
    /\ buffer' = PushSlot(item)
    /\ tail' = PushTail
    /\ len' = PushLen
    /\ head' = head
    /\ owner' = (item :> "queue") @@ Disown(owner, buffer[tail])
    /\ drops' = (item :> 0) @@ Destroy(drops, buffer[tail])
    /\ pushed' = Append(pushed, item)
    /\ popped' = popped
    /\ ret' = [op |-> "push", item |-> item, res |-> Ok]

\* push that writes the slot before it checks is_full
Push_write_first(item) ==
    /\ buffer' = PushSlot(item)
    /\ owner' = (item :> "queue") @@ Disown(owner, buffer[tail])
    /\ drops' = (item :> 0) @@ Destroy(drops, buffer[tail])
    /\ popped' = popped
    /\ head' = head
    /\ IF is_full
       THEN /\ ret' = [op |-> "push", item |-> item, res |-> Err(Full)]
            /\ UNCHANGED <<tail, len, pushed>>
       ELSE /\ tail' = PushTail
            /\ len' = PushLen
            /\ pushed' = Append(pushed, item)
            /\ ret' = [op |-> "push", item |-> item, res |-> Ok]

\* Queue::push(item). The item is moved into the call.
Push(item) ==
    IF is_full
    THEN /\ ret' = [op |-> "push", item |-> item, res |-> Err(Full)]
         /\ owner' = (item :> PushFullOwner(item)) @@ owner
         /\ drops' = (item :> PushFullDrops(item)) @@ drops
         /\ UNCHANGED <<queue, pushed, popped>>
    ELSE /\ buffer' = PushSlot(item)
         /\ tail' = PushTail
         /\ len' = PushLen
         /\ head' = head
         \* the assignment drops whatever the slot held before
         /\ owner' = (item :> "queue") @@ Disown(owner, buffer[tail])
         /\ drops' = (item :> 0) @@ Destroy(drops, buffer[tail])
         /\ pushed' = Append(pushed, item)
         /\ popped' = popped
         /\ ret' = [op |-> "push", item |-> item, res |-> Ok]

\* ------------------------------------------------------------- pop
PopItem_newest == buffer[(tail + capacity - 1) % capacity]
\* self.buffer[self.head].take(): the value read ...
PopItem == buffer[head]

PopSlot_keep == buffer
\* ... and the slot it leaves behind.
PopSlot == [buffer EXCEPT ![head] = None]

PopHead_stuck == head % capacity
PopHead_nowrap == head + 1
\* self.head = (self.head + 1) % self.capacity()
PopHead == (head + 1) % capacity

PopLen_keep == len
\* self.len -= 1
PopLen == len - 1

\* Queue::pop(). A value returned in Some(..) is moved to the caller.
Pop ==
    IF is_empty
    THEN /\ ret' = [op |-> "pop", res |-> None]
         /\ UNCHANGED <<queue, owner, drops, pushed, popped>>
    ELSE /\ buffer' = PopSlot
         /\ head' = PopHead
         /\ len' = PopLen
         /\ tail' = tail
         /\ ret' = [op |-> "pop", res |-> PopItem]
         /\ owner' = IF PopItem = None THEN owner
                     ELSE [owner EXCEPT ![PopItem[1]] = "caller"]
         /\ popped' = IF PopItem = None THEN popped
                      ELSE Append(popped, PopItem[1])
         /\ UNCHANGED <<drops, pushed>>

\* ------------------------------------------------------------- drop
\* The queue goes out of scope: the Vec drops every slot, and a slot holding
\* Some(item) runs the item's destructor.
DropBuffer(d) ==
    [i \in DOMAIN d |-> d[i] + Cardinality({k \in DOMAIN buffer : buffer[k] = Some(i)})]

Drop ==
    /\ st = "live"
    /\ st' = "dropped"
    /\ drops' = DropBuffer(drops)
    /\ owner' = [i \in DOMAIN owner |->
                    IF \E k \in DOMAIN buffer : buffer[k] = Some(i)
                    THEN "dropped" ELSE owner[i]]
    /\ ret' = [op |-> "drop", res |-> "dropped"]
    /\ UNCHANGED <<queue, next, pushed, popped>>

DropQueue == Drop /\ UNCHANGED <<drv, thr>>

\* ------------------------------------------------------------- caller
\* A caller that makes any sequence of calls on one queue.
CallPush ==
    /\ st = "live"
    /\ next <= MaxItems
    /\ Push(next)
    /\ next' = next + 1
    /\ UNCHANGED <<st, drv, thr>>

CallPop ==
    /\ st = "live"
    /\ Pop
    /\ UNCHANGED <<st, next, drv, thr>>

\* The threads of the shared-queue specification, before any of them runs.
Threads == {"a", "b"}

NoCall == [pc |-> "idle", op |-> "none", item |-> None, calls |-> 0]

NoThreads == [mode |-> "none", lock |-> "free", t |-> [x \in Threads |-> NoCall]]

Idle == [pc |-> "idle", cycle |-> 0, n |-> 0, i |-> 0, put |-> <<>>, got |-> <<>>, run |-> 0,
         rej |-> None, retry |-> None, held |-> <<>>]

Init ==
    /\ st = "none"
    /\ buffer = <<>>
    /\ head = 0
    /\ tail = 0
    /\ len = 0
    /\ next = 1
    /\ owner = <<>>
    /\ drops = <<>>
    /\ pushed = <<>>
    /\ popped = <<>>
    /\ ret = [op |-> "none", res |-> "none"]
    /\ drv = Idle
    /\ thr = NoThreads

Next ==
    \/ \E c \in 0..MaxCap : New(c)
    \/ CallPush
    \/ CallPop
    \/ DropQueue

Spec == Init /\ [][Next]_vars

\* ------------------------------------------------------------- cycle driver
\* A scripted caller in the shape of the tests fifo_ordering and
\* multiple_wraparound_cycles: on a new queue it runs NumCycles cycles, each
\* pushing n fresh values (unwrapping every result) and then popping n times.
\* The tests take n = capacity; n ranges over 1..capacity here.
\* drv.put and drv.got are the values pushed and the results popped in the
\* current cycle, drv.run the number of cycles with n = capacity completed in
\* a row.
CycleBegin ==
    /\ st = "live"
    /\ drv.pc \in {"idle", "end"}
    /\ drv.cycle < NumCycles
    /\ \E n \in 1..capacity :
          drv' = [drv EXCEPT !.pc = "fill", !.cycle = @ + 1, !.n = n,
                             !.i = 0, !.put = <<>>, !.got = <<>>]
    /\ UNCHANGED <<st, queue, next, owner, drops, pushed, popped, ret, thr>>

\* queue.push(base + i).unwrap()
CyclePush ==
    /\ st = "live"
    /\ drv.pc = "fill"
    /\ Push(next)
    /\ next' = next + 1
    /\ drv' = IF ret'.res = Ok
              THEN [drv EXCEPT !.put = Append(@, next), !.i = @ + 1,
                               !.pc = IF drv.i + 1 = drv.n THEN "filled" ELSE "fill"]
              ELSE [drv EXCEPT !.pc = "panic"]
    /\ UNCHANGED <<st, thr>>

\* queue.pop(), compared with the value expected by the test
CyclePop ==
    /\ st = "live"
    /\ drv.pc \in {"filled", "drain"}
    /\ Pop
    /\ drv' = [drv EXCEPT !.got = Append(@, ret'.res),
                          !.pc = IF Len(drv.got) + 1 = drv.n THEN "end" ELSE "drain",
                          !.run = IF Len(drv.got) + 1 < drv.n THEN @
                                  ELSE IF drv.n = capacity THEN @ + 1 ELSE 0]
    /\ UNCHANGED <<st, next, thr>>

\* the test returns and the queue goes out of scope
CyclesDone ==
    /\ drv.pc = "end"
    /\ drv.cycle = NumCycles
    /\ Drop
    /\ drv' = [drv EXCEPT !.pc = "done"]
    /\ UNCHANGED thr

NextCycle ==
    \/ \E c \in 0..MaxCap : New(c)
    \/ CycleBegin
    \/ CyclePush
    \/ CyclePop
    \/ CyclesDone

SpecCycle == Init /\ [][NextCycle]_vars

\* ------------------------------------------------------------- shared queue
\* Two threads call push and pop on one queue. A call is made of the steps of
\* the method body: the is_full/is_empty check, the slot write (or take), the
\* index update and the len update. In mode "locked" the caller wraps each
\* call in an external lock; in mode "racy" it does not, and the steps of the
\* two calls interleave. The queue itself has no synchronization.
UsizeMod == 2 ^ UsizeBits

\* usize arithmetic out of range: wraps in a build without overflow checks
Wrap(x) == x % UsizeMod

InUsize(x) == 0 <= x /\ x < UsizeMod

Quiescent == \A x \in Threads : thr.t[x].pc \in {"idle", "panic"}

RaceStart ==
    /\ st = "live"
    /\ thr.mode = "none"
    /\ \E m \in {"locked", "racy"} : thr' = [thr EXCEPT !.mode = m]
    /\ UNCHANGED <<st, queue, next, owner, drops, pushed, popped, ret, drv>>

\* thread x enters push(item) or pop(), taking the external lock if there is one
TCall(x) ==
    /\ st = "live"
    /\ thr.mode \in {"locked", "racy"}
    /\ thr.t[x].pc = "idle"
    /\ thr.t[x].calls < MaxCalls
    /\ thr.mode = "locked" => thr.lock = "free"
    /\ \/ /\ thr' = [thr EXCEPT !.t[x] = [pc |-> "check", op |-> "push",
                                          item |-> Some(next), calls |-> @.calls + 1],
                                !.lock = IF thr.mode = "locked" THEN x ELSE @]
          /\ next' = next + 1
       \/ /\ thr' = [thr EXCEPT !.t[x] = [pc |-> "check", op |-> "pop",
                                          item |-> None, calls |-> @.calls + 1],
                                !.lock = IF thr.mode = "locked" THEN x ELSE @]
          /\ next' = next
    /\ UNCHANGED <<st, queue, owner, drops, pushed, popped, ret, drv>>

\* if self.is_full() { return Err(Error::Full); }
\* if self.is_empty() { return None; }
TCheck(x) ==
    /\ thr.t[x].pc = "check"
    /\ IF thr.t[x].op = "push"
       THEN IF is_full
            THEN /\ ret' = [op |-> "push", item |-> thr.t[x].item[1], res |-> Err(Full)]
                 /\ owner' = (thr.t[x].item[1] :> PushFullOwner(thr.t[x].item[1])) @@ owner
                 /\ drops' = (thr.t[x].item[1] :> PushFullDrops(thr.t[x].item[1])) @@ drops
                 /\ thr' = [thr EXCEPT !.t[x].pc = "idle", !.lock = "free"]
            ELSE /\ thr' = [thr EXCEPT !.t[x].pc = "write"]
                 /\ UNCHANGED <<ret, owner, drops>>
       ELSE IF is_empty
            THEN /\ ret' = [op |-> "pop", res |-> None]
                 /\ thr' = [thr EXCEPT !.t[x].pc = "idle", !.lock = "free"]
                 /\ UNCHANGED <<owner, drops>>
            ELSE /\ thr' = [thr EXCEPT !.t[x].pc = "write"]
                 /\ UNCHANGED <<ret, owner, drops>>
    /\ UNCHANGED <<st, queue, next, pushed, popped, drv>>

\* self.buffer[self.tail] = Some(item);
\* let item = self.buffer[self.head].take();
TWrite(x) ==
    /\ thr.t[x].pc = "write"
    /\ IF thr.t[x].op = "push"
       THEN /\ buffer' = PushSlot(thr.t[x].item[1])
            /\ owner' = (thr.t[x].item[1] :> "queue") @@ Disown(owner, buffer[tail])
            /\ drops' = (thr.t[x].item[1] :> 0) @@ Destroy(drops, buffer[tail])
            /\ thr' = [thr EXCEPT !.t[x].pc = "index"]
       ELSE /\ buffer' = PopSlot
            /\ owner' = IF PopItem = None THEN owner
                        ELSE [owner EXCEPT ![PopItem[1]] = "caller"]
            /\ drops' = drops
            /\ thr' = [thr EXCEPT !.t[x].pc = "index", !.t[x].item = PopItem]
    /\ UNCHANGED <<st, head, tail, len, next, pushed, popped, ret, drv>>

\* self.tail = (self.tail + 1) % self.capacity();
\* self.head = (self.head + 1) % self.capacity();
TIndex(x) ==
    /\ thr.t[x].pc = "index"
    /\ IF thr.t[x].op = "push"
       THEN tail' = PushTail /\ head' = head
       ELSE head' = PopHead /\ tail' = tail
    /\ thr' = [thr EXCEPT !.t[x].pc = "len"]
    /\ UNCHANGED <<st, buffer, len, next, owner, drops, pushed, popped, ret, drv>>

\* self.len += 1; Ok(())
\* self.len -= 1; item
\* An update that leaves the range of usize panics in a build with overflow
\* checks and wraps in one without.
TLen(x) ==
    /\ thr.t[x].pc = "len"
    /\ LET new == IF thr.t[x].op = "push" THEN PushLen ELSE PopLen
           returns ==
               /\ len' = Wrap(new)
               /\ thr' = [thr EXCEPT !.t[x].pc = "idle", !.lock = "free"]
               /\ IF thr.t[x].op = "push"
                  THEN /\ pushed' = Append(pushed, thr.t[x].item[1])
                       /\ popped' = popped
                       /\ ret' = [op |-> "push", item |-> thr.t[x].item[1], res |-> Ok]
                  ELSE /\ popped' = IF thr.t[x].item = None THEN popped
                                    ELSE Append(popped, thr.t[x].item[1])
                       /\ pushed' = pushed
                       /\ ret' = [op |-> "pop", res |-> thr.t[x].item]
           panics ==
               /\ ~InUsize(new)
               /\ thr' = [thr EXCEPT !.t[x].pc = "panic"]
               /\ UNCHANGED <<len, pushed, popped, ret>>
       IN  returns \/ panics
    /\ UNCHANGED <<st, buffer, head, tail, next, owner, drops, drv>>

NextRace ==
    \/ \E c \in 0..MaxCap : New(c)
    \/ RaceStart
    \/ \E x \in Threads : TCall(x)
    \/ \E x \in Threads : TCheck(x)
    \/ \E x \in Threads : TWrite(x)
    \/ \E x \in Threads : TIndex(x)
    \/ \E x \in Threads : TLen(x)

SpecRace == Init /\ [][NextRace]_vars

\* ------------------------------------------------------------- properties
Range(s) == {s[i] : i \in DOMAIN s}

\* Indices of the len slots starting at head, wrapping modulo capacity.
Occupied == {(head + j) % capacity : j \in 0..(len - 1)}

\* The slot holding the k-th queued element, k = 1 being the front.
Slot(k) == buffer[(head + k - 1) % capacity]

\* Slots of the buffer that hold item i.
SlotsOf(i) == {k \in DOMAIN buffer : buffer[k] = Some(i)}

\* Items offered to a push that returned Err(Full).
Rejected == {i \in DOMAIN owner : i \notin Range(pushed)}

\* ------------------------------------------------------------- retry and drain
\* A caller that, after any sequence of calls, either
\*  - has a push refused with Err(Full), pops once, pushes again (the value it
\*    wanted to queue, as a new item: the refused one was consumed by the
\*    call) and then drains the queue, or
\*  - drains the queue right away,
\* the drain being the loop `while let Some(x) = queue.pop() { .. }`.
\* drv.rej is the refused item, drv.retry the item of the second push,
\* drv.held the slots queued when the second push was made; drv.put is the
\* content of the queue when the drain starts, drv.got the values the loop
\* received, drv.n the length at its start and drv.i the number of pop calls
\* it made.
Held == [k \in 1..len |-> Slot(k)]

FreePush == drv.pc = "idle" /\ CallPush

FreePop == drv.pc = "idle" /\ CallPop

\* a push that comes back with Err(Error::Full)
RetryFail ==
    /\ st = "live"
    /\ drv.pc = "idle"
    /\ Push(next)
    /\ ret'.res = Err(Full)
    /\ next' = next + 1
    /\ drv' = [drv EXCEPT !.pc = "failed", !.rej = Some(next)]
    /\ UNCHANGED <<st, thr>>

\* one pop
RetryPop ==
    /\ st = "live"
    /\ drv.pc = "failed"
    /\ Pop
    /\ drv' = [drv EXCEPT !.pc = IF ret'.res # None THEN "popped" ELSE "nopop"]
    /\ UNCHANGED <<st, next, thr>>

\* the push made again
RetryPush ==
    /\ st = "live"
    /\ drv.pc = "popped"
    /\ Push(next)
    /\ next' = next + 1
    /\ drv' = [drv EXCEPT !.pc = IF ret'.res = Ok THEN "retried" ELSE "stuck",
                          !.retry = Some(next), !.held = Held]
    /\ UNCHANGED <<st, thr>>

\* entry of the loop
DrainStart ==
    /\ st = "live"
    /\ drv.pc \in {"idle", "retried"}
    /\ drv' = [drv EXCEPT !.pc = "drain", !.n = len, !.i = 0, !.put = Held,
                          !.got = <<>>]
    /\ UNCHANGED <<st, queue, next, owner, drops, pushed, popped, ret, thr>>

\* while let Some(x) = queue.pop(): one evaluation of the loop condition
DrainPop ==
    /\ st = "live"
    /\ drv.pc = "drain"
    /\ Pop
    /\ drv' = [drv EXCEPT !.i = @ + 1,
                          !.got = IF ret'.res = None THEN @ ELSE Append(@, ret'.res),
                          !.pc = IF ret'.res = None THEN "done" ELSE "drain"]
    /\ UNCHANGED <<st, next, thr>>

NextScript ==
    \/ \E c \in 0..MaxCap : New(c)
    \/ FreePush
    \/ FreePop
    \/ RetryFail
    \/ RetryPop
    \/ RetryPush
    \/ DrainStart
    \/ DrainPop

\* The loop runs on: nothing outside it can keep DrainPop from being taken.
SpecScript == Init /\ [][NextScript]_vars /\ WF_vars(DrainPop)

\* C1: after Queue::new(C) with C > 0 and any sequence of push and pop calls,
\* successful or not, 0 <= len() <= capacity().
C1_LenWithinCapacity == st = "live" => (0 <= len /\ len <= capacity)

\* C1's case: a push was refused on a full queue after an earlier pop was
\* refused or served, the length standing at the capacity.
C1_Witness ==
    /\ st = "live"
    /\ len = capacity
    /\ capacity = MaxCap
    /\ ret.op = "push" /\ ret.res = Err(Full)
    /\ Len(popped) > 0

\* C2: n successful pushes of distinct values on an empty queue followed by n
\* pops: the i-th pop returns the i-th pushed value, for every i in 1..n.
C2_FifoOrdering ==
    /\ Len(drv.got) <= Len(drv.put)
    /\ \A i \in 1..Len(drv.got) : drv.got[i] = Some(drv.put[i])
    /\ drv.pc = "end" => Len(drv.got) = drv.n /\ Len(drv.put) = drv.n

\* C2's case: on a new queue, n >= 2 values were pushed and then n pops made.
C2_Witness ==
    /\ drv.pc = "end"
    /\ drv.cycle = 1
    /\ drv.n >= 2
    /\ Len(drv.got) = drv.n

\* C3: in any interleaving of pushes and pops, also once more than capacity
\* pushes have been made and the indices have wrapped, a pop on a non-empty
\* queue returns the oldest value pushed and not yet popped.
C3_WraparoundFifo ==
    [][(st = "live" /\ len > 0 /\ ret'.op = "pop")
         => /\ Len(popped) < Len(pushed)
            /\ ret'.res = Some(pushed[Len(popped) + 1])]_vars

\* C3's case: the value just popped was pushed after the tail had wrapped.
C3_Witness ==
    /\ st = "live"
    /\ capacity >= 2
    /\ Len(pushed) > capacity
    /\ ret.op = "pop"
    /\ ret.res = Some(pushed[Len(pushed)])

\* C4: a push on a queue with len() == capacity() returns Err(Full) and leaves
\* len, head, tail and every slot as they were.
C4_FullPushRejected ==
    [][(st = "live" /\ len = capacity /\ ret'.op = "push")
         => (ret'.res = Err(Full) /\ UNCHANGED queue)]_vars

\* C4's case: a push has just been refused on a full queue.
C4_Witness ==
    /\ st = "live"
    /\ len = capacity
    /\ ret.op = "push"
    /\ ret.res = Err(Full)

C6_EmptyPopNone ==
    [][(st = "live" /\ len = 0 /\ ret'.op = "pop")
         => (ret'.res = None /\ UNCHANGED queue)]_vars

\* C6's case: a pop has just returned None on a queue that was used and emptied.
C6_Witness ==
    /\ st = "live"
    /\ len = 0
    /\ Len(popped) > 0
    /\ ret.op = "pop"
    /\ ret.res = None

\* C7: the values pushed are the values popped followed by the values held from
\* head to tail; a held value sits in exactly one slot and no popped value is
\* left in the buffer; no destructor of a queued value runs while it is queued,
\* and dropping the queue runs it exactly once (never for a popped value).
C7_NoDuplicateNoLoss ==
    /\ st = "live" =>
          /\ \A k \in 1..len : Slot(k) # None
          /\ pushed = popped \o [k \in 1..len |-> Slot(k)[1]]
          /\ \A i \in Range(pushed) :
                /\ Cardinality(SlotsOf(i)) = (IF i \in Range(popped) THEN 0 ELSE 1)
                /\ drops[i] = 0
    /\ st = "dropped" =>
          \A i \in Range(pushed) :
             drops[i] = (IF i \in Range(popped) THEN 0 ELSE 1)

\* C7's case: a queue that has wrapped, has served pops and still holds values
\* is dropped.
C7_Witness ==
    /\ st = "dropped"
    /\ Len(pushed) > capacity
    /\ Len(popped) > 0
    /\ len >= 2

\* C8: an item whose push returned Err(Full) is in no slot and is never
\* returned by a pop.
C8_RejectedNeverStored ==
    \A i \in Rejected : SlotsOf(i) = {} /\ i \notin Range(popped)

\* C8's case: after a refused push the queue was drained and refilled.
C8_Witness ==
    /\ st = "live"
    /\ Rejected # {}
    /\ \E i \in Rejected : \E j \in Range(popped) : j > i
    /\ len = capacity

\* C9: the slots holding Some(value) are exactly the len slots at head, head+1,
\* ..., head+len-1 modulo capacity; every other slot is None.
C9_OccupiedSlots ==
    st = "live" => \A k \in DOMAIN buffer : (buffer[k] # None) <=> (k \in Occupied)

\* C9's case: the occupied run wraps past the last index and a vacant slot
\* lies between tail and head.
C9_Witness ==
    /\ st = "live"
    /\ head + len > capacity
    /\ len < capacity
    /\ len >= 2

\* C10: in each cycle of 'push capacity values, then pop capacity times', also
\* after capacity or more such cycles in a row, every push succeeds, the queue
\* is_full() after the fill, the pops come in push order and the queue
\* is_empty() at the end of the cycle.
C10_FullCycles ==
    (st = "live" /\ drv.n = capacity) =>
        /\ drv.pc # "panic"
        /\ drv.pc = "filled" => is_full
        /\ drv.pc = "drain" =>
              \A i \in 1..Len(drv.got) :
                 i <= Len(drv.put) /\ drv.got[i] = Some(drv.put[i])
        /\ drv.pc = "end" =>
              /\ is_empty
              /\ drv.got = [i \in 1..capacity |-> Some(drv.put[i])]

\* C10's case: capacity full cycles in a row have been completed on a queue of
\* capacity at least 2.
C10_Witness ==
    /\ st = "live"
    /\ capacity >= 2
    /\ drv.pc = "end"
    /\ drv.n = capacity
    /\ drv.run >= capacity

\* C11: Queue::new(0) panics and yields no queue value: no queue that exists
\* has capacity() == 0, and after the panic there is no queue to call.
C11_ZeroCapacityRejected ==
    /\ st \in {"live", "dropped"} => capacity > 0
    /\ st = "panicked" => (ret.op = "new" /\ ret.arg = 0 /\ ret.res = "panic"
                           /\ buffer = <<>> /\ pushed = <<>> /\ owner = <<>>)
    /\ (ret.op = "new" /\ ret.arg = 0) => st = "panicked"

\* C11's case: Queue::new(0) was called.
C11_Witness ==
    /\ ret.op = "new"
    /\ ret.arg = 0
    /\ st = "panicked"

\* C12: Queue::new(C) with C > 0 returns a queue with len == 0, head == tail ==
\* 0, exactly C slots, all of them None, and is_empty() true.
C12_ConstructPostcondition ==
    (ret.op = "new" /\ ret.arg > 0) =>
        /\ st = "live"
        /\ len = 0 /\ head = 0 /\ tail = 0
        /\ DOMAIN buffer = 0..(ret.arg - 1)
        /\ capacity = ret.arg
        /\ \A k \in DOMAIN buffer : buffer[k] = None
        /\ is_empty

\* C12's case: Queue::new(MaxCap) has just returned.
C12_Witness ==
    /\ st = "live"
    /\ ret.op = "new"
    /\ ret.arg = MaxCap
    /\ MaxCap > 1

\* C13: a push on a queue with len() < capacity() returns Ok(()), writes the
\* item into slot[tail], sets tail to (tail + 1) mod capacity, adds exactly 1 to
\* len and leaves head and every other slot as they were.
C13_PushEffect ==
    [][(st = "live" /\ len < capacity /\ ret'.op = "push")
         => /\ ret'.res = Ok
            /\ DOMAIN buffer' = DOMAIN buffer
            /\ buffer'[tail] = Some(ret'.item)
            /\ \A k \in DOMAIN buffer : k # tail => buffer'[k] = buffer[k]
            /\ tail' = (tail + 1) % capacity
            /\ len' = len + 1
            /\ head' = head]_vars

\* C13's case: a push has just succeeded on a queue whose head is not at 0
\* and whose tail wrapped to 0.
C13_Witness ==
    /\ st = "live"
    /\ ret.op = "push"
    /\ ret.res = Ok
    /\ head > 0
    /\ tail = 0

\* C14: a pop on a queue with len() > 0 returns Some(v) with v the value in
\* slot[head], leaves slot[head] None, sets head to (head + 1) mod capacity,
\* takes exactly 1 from len and leaves tail and every other slot as they were.
C14_PopEffect ==
    [][(st = "live" /\ len > 0 /\ ret'.op = "pop")
         => /\ ret'.res # None
            /\ ret'.res = buffer[head]
            /\ DOMAIN buffer' = DOMAIN buffer
            /\ buffer'[head] = None
            /\ \A k \in DOMAIN buffer : k # head => buffer'[k] = buffer[k]
            /\ head' = (head + 1) % capacity
            /\ len' = len - 1
            /\ tail' = tail]_vars

\* C14's case: a pop has just returned a value and moved head from the last
\* index to 0, other values staying queued.
C14_Witness ==
    /\ st = "live"
    /\ ret.op = "pop"
    /\ ret.res # None
    /\ head = 0
    /\ capacity >= 2
    /\ len >= 1

\* C15: 0 <= head < capacity and 0 <= tail < capacity in every state, also
\* after repeated fill/drain; head + 1 and tail + 1 never exceed capacity.
C15_IndexRange ==
    st = "live" =>
        /\ 0 <= head /\ head < capacity
        /\ 0 <= tail /\ tail < capacity
        /\ head + 1 <= capacity
        /\ tail + 1 <= capacity

\* C15's case: after more than two turns of the buffer both indices stand at
\* the last index.
C15_Witness ==
    /\ st = "live"
    /\ capacity >= 2
    /\ Len(pushed) > 2 * capacity
    /\ head = capacity - 1
    /\ tail = capacity - 1

\* C16: on a queue of capacity 1 a push on the empty queue succeeds and makes
\* is_full() true, a push on the full queue returns Err(Full), a pop then
\* returns the single value pushed and leaves the queue empty, ready for a
\* new push.
C16_CapacityOne ==
    [][(st = "live" /\ capacity = 1) =>
          /\ (len = 0 /\ ret'.op = "push") =>
                (ret'.res = Ok /\ len' = capacity /\ buffer'[0] = Some(ret'.item))
          /\ (len = 1 /\ ret'.op = "push") =>
                (ret'.res = Err(Full) /\ UNCHANGED queue)
          /\ (len = 1 /\ ret'.op = "pop") =>
                (ret'.res = Some(pushed[Len(pushed)]) /\ len' = 0
                 /\ buffer'[0] = None)]_vars

\* C16's case: capacity 1; item 1 pushed, item 2 refused, item 1 popped, item 3
\* pushed.
C16_Witness ==
    /\ st = "live"
    /\ capacity = 1
    /\ pushed = <<1, 3>>
    /\ popped = <<1>>
    /\ Rejected = {2}
    /\ len = 1

\* C17: capacity(), the number of slots, is the value passed to new and no
\* push or pop, successful or refused, changes it.
C17_CapacityImmutable ==
    [][/\ (st' = "live" /\ ret'.op = "new") => capacity' = ret'.arg
       /\ (st = "live" /\ st' = "live") => DOMAIN buffer' = DOMAIN buffer]_vars

\* C17's case: successful and refused pushes and pops have been made on a
\* queue of capacity MaxCap.
C17_Witness ==
    /\ st = "live"
    /\ capacity = MaxCap
    /\ Rejected # {}
    /\ Len(popped) > 0
    /\ ret.op = "pop"
    /\ ret.res = None

\* C18: is_empty() is true exactly when len() == 0, is_full() exactly when
\* len() == capacity(), and the two are never true together.
C18_ObserverConsistency ==
    st = "live" =>
        /\ is_empty <=> (len = 0)
        /\ is_full <=> (len = capacity)
        /\ ~(is_empty /\ is_full)

\* C18's case: capacity 1, where one push turns is_empty into is_full.
C18_Witness ==
    /\ st = "live"
    /\ capacity = 1
    /\ is_full
    /\ ~is_empty

\* C19: the queue never gets stuck: in every state a push or a pop can
\* succeed; whenever len > 0 a pop can succeed and lowers len by one, and
\* whenever len < capacity a push can succeed and raises len by one, so the
\* empty and the full state are both reachable from every state.
C19_NoTerminalState ==
    st = "live" =>
        /\ len > 0 =>
              ENABLED (Pop /\ ret'.res # None /\ len' = len - 1
                           /\ UNCHANGED <<st, next, drv, thr>>)
        /\ len < capacity =>
              ENABLED (Push(next) /\ ret'.res = Ok /\ len' = len + 1
                                  /\ UNCHANGED <<st, next, drv, thr>>)
        /\ (len > 0 \/ len < capacity)
        /\ 0 <= len /\ len <= capacity

\* C19's case: a queue that has been full and has been empty again stands
\* between the two.
C19_Witness ==
    /\ st = "live"
    /\ Rejected # {}
    /\ Len(popped) >= capacity
    /\ 0 < len
    /\ len < capacity

\* The invariants of the queue: len within capacity, the Some slots exactly
\* the len slots from head, and the values pushed being the values popped
\* followed by the values held.
QueueConsistent ==
    /\ 0 <= len /\ len <= capacity
    /\ \A k \in DOMAIN buffer : (buffer[k] # None) <=> (k \in Occupied)
    /\ pushed = popped \o [k \in 1..len |-> Slot(k)[1]]

\* Items whose push returned Ok(()) that were never popped and are in no slot.
Lost == {i \in Range(pushed) : i \notin Range(popped) /\ SlotsOf(i) = {}}

\* C20: the queue has no synchronization of its own. When the calls of the
\* two threads are serialized by an external lock, the queue's invariants hold
\* whenever no call is in progress (and at most one call is in progress);
\* without the lock the steps interleave and a state that breaks them is
\* reached (C20_Witness).
C20_SerializedCallsSafe ==
    (st = "live" /\ thr.mode = "locked") =>
        /\ Cardinality({x \in Threads : thr.t[x].pc # "idle"}) <= 1
        /\ \A x \in Threads : thr.t[x].pc # "panic"
        /\ Quiescent => (QueueConsistent /\ Lost = {})

\* C20's case: without the lock, both calls have returned and an item whose
\* push returned Ok is lost and len disagrees with the occupied slots.
C20_Witness ==
    /\ st = "live"
    /\ thr.mode = "racy"
    /\ \A x \in Threads : thr.t[x].pc = "idle"
    /\ Lost # {}
    /\ len # Cardinality({k \in DOMAIN buffer : buffer[k] # None})
    /\ ~QueueConsistent

\* C21: tail == (head + len) mod capacity in every state; so head == tail
\* exactly when the queue is empty or full.
C21_IndexRelation ==
    st = "live" =>
        /\ tail = (head + len) % capacity
        /\ (head = tail) <=> (is_empty \/ is_full)

\* C21's case: a full queue whose head and tail meet away from index 0, after
\* the indices have wrapped.
C21_Witness ==
    /\ st = "live"
    /\ capacity >= 2
    /\ is_full
    /\ head = tail
    /\ head > 0
    /\ Len(popped) > capacity

\* C22: after a push returned Err(Full), one pop succeeds and is enough for
\* the push made again to succeed; the item of that push is returned by pop
\* only after every item that was queued when it was pushed.
C22_BackpressureRecovery ==
    /\ drv.pc \notin {"nopop", "stuck"}
    /\ drv.pc = "popped" => len = capacity - 1
    /\ drv.pc = "retried" =>
          /\ ret.res = Ok
          /\ drv.retry \notin Range(drv.held)
          /\ Held = Append(drv.held, drv.retry)
    /\ (drv.pc \in {"drain", "done"} /\ drv.retry # None) =>
          \A j \in 1..Len(drv.got) :
             drv.got[j] = drv.retry =>
                /\ j = Len(drv.held) + 1
                /\ SubSeq(drv.got, 1, j - 1) = drv.held
    /\ (drv.pc = "done" /\ drv.retry # None) =>
          (Len(drv.got) > 0 /\ drv.got[Len(drv.got)] = drv.retry)

\* C22's case: on a queue of capacity at least 2 a push was refused, one pop
\* made, the push made again, and the queue drained down to the new item.
C22_Witness ==
    /\ st = "live"
    /\ capacity >= 2
    /\ drv.pc = "done"
    /\ drv.rej # None
    /\ drv.retry # None
    /\ Len(drv.held) = capacity - 1
    /\ drv.got = Append(drv.held, drv.retry)

\* The loop has ended as claimed: n values received, the n queued at its
\* start in their order, then one None; the queue is empty.
DrainDone ==
    /\ drv.pc = "done"
    /\ Len(drv.got) = drv.n
    /\ drv.got = drv.put
    /\ drv.i = drv.n + 1
    /\ ret.op = "pop" /\ ret.res = None
    /\ is_empty

\* C23: from any state with len() == n the loop `while let Some(x) = pop()`
\* terminates after exactly n successful pops and one None, has received the n
\* queued values in FIFO order, and leaves is_empty() true.
C23_DrainTerminates == (drv.pc = "drain") ~> DrainDone

\* C23's case: the loop has ended on a queue that held capacity >= 2 values
\* with head away from index 0.
C23_Witness ==
    /\ st = "live"
    /\ drv.pc = "done"
    /\ drv.n = capacity
    /\ capacity >= 2
    /\ head > 0
    /\ Len(drv.got) = drv.n

====
